---- MODULE Spec2Model ----
(***************************************************************************)
(* Number-to-words conversion for the Dutch (nl) and Frisian (fy) locales. *)
(*                                                                         *)
(* Strings are sequences of one-character strings, so that joins, suffix   *)
(* tests (ends_with), whitespace splitting and separators are computed.    *)
(* A BigFloat is a record                                                  *)
(*   [inf : BOOLEAN, neg : BOOLEAN, ip : digits, fp : digits]              *)
(* ip: decimal digits of the integer part, least significant first, no     *)
(* leading zero; fp: decimal digits of the fraction, tenths first, no      *)
(* trailing zero.                                                          *)
(***************************************************************************)
EXTENDS Integers, Sequences, FiniteSets, TLC

VARIABLES lang, num, register, result, pc

vars == <<lang, num, register, result, pc>>

(***************************************************************************)
(* Bounds of the input space.                                              *)
(***************************************************************************)
\* every integer 0..MaxSmall is an input (all triplets 0..999 and beyond)
MaxSmall == 1010
\* highest base-1000 group index an input has a nonzero group at
MaxIdx == 22
\* longest fraction an input has, in decimal digits
MaxFracLen == 3

(***************************************************************************)
(* Lexical tables.                                                         *)
(***************************************************************************)
Langs == {"nl", "fy"}

UNITS(l) ==
  IF l = "nl"
  THEN << <<"é","é","n">>, <<"t","w","e","e">>, <<"d","r","i","e">>, <<"v","i","e","r">>, <<"v","i","j","f">>,
          <<"z","e","s">>, <<"z","e","v","e","n">>, <<"a","c","h","t">>, <<"n","e","g","e","n">> >>
  ELSE << <<"i","e","n">>, <<"t","w","a">>, <<"t","r","i","j","e">>, <<"f","j","o","u","w","e","r">>, <<"f","i","i","f">>,
          <<"s","e","i","s">>, <<"s","â","n">>, <<"a","c","h","t">>, <<"n","j","o","g","g","e","n">> >>

TENS(l) ==
  IF l = "nl"
  THEN << <<"t","i","e","n">>, <<"t","w","i","n","t","i","g">>, <<"d","e","r","t","i","g">>, <<"v","e","e","r","t","i","g">>, <<"v","i","j","f","t","i","g">>,
          <<"z","e","s","t","i","g">>, <<"z","e","v","e","n","t","i","g">>, <<"t","a","c","h","t","i","g">>, <<"n","e","g","e","n","t","i","g">> >>
  ELSE << <<"t","s","i","e","n">>, <<"t","w","e","i","n","t","i","c","h">>, <<"t","r","i","t","i","c","h">>, <<"f","j","i","r","t","i","c","h">>, <<"f","y","f","t","i","c","h">>,
          <<"s","e","c","h","s","t","i","c","h">>, <<"s","a","n","t","i","c","h">>, <<"t","a","c","h","t","i","g">>, <<"n","j","o","g","g","e","n","t","i","c","h">> >>

\* TEENS is indexed 0..9 in the source; here TEENS(l)[u + 1]
TEENS(l) ==
  IF l = "nl"
  THEN << <<"t","i","e","n">>, <<"e","l","f">>, <<"t","w","a","a","l","f">>, <<"d","e","r","t","i","e","n">>, <<"v","e","e","r","t","i","e","n">>,
          <<"v","i","j","f","t","i","e","n">>, <<"z","e","s","t","i","e","n">>, <<"z","e","v","e","n","t","i","e","n">>, <<"a","c","h","t","i","e","n">>,
          <<"n","e","g","e","n","t","i","e","n">> >>
  ELSE << <<"t","s","i","e","n">>, <<"a","l","v","e">>, <<"t","o","l","v","e">>, <<"t","r","e","t","t","j","i","n">>, <<"f","j","i","r","t","j","i","n">>,
          <<"f","y","f","t","j","i","n">>, <<"s","e","c","h","s","t","j","i","n">>, <<"s","a","n","t","j","i","n">>, <<"a","c","h","t","s","j","e">>,
          <<"n","j","o","g","g","e","n","t","j","i","n">> >>

thousand(l) == IF l = "nl" THEN <<"d","u","i","z","e","n","d">> ELSE <<"t","û","z","e","n">>

MEGAS(l) ==
  << thousand(l), <<"m","i","l","j","o","e","n">>, <<"m","i","l","j","a","r","d">>, <<"b","i","l","j","o","e","n">>, <<"b","i","l","j","a","r","d">>,
     <<"t","r","i","l","j","o","e","n">>, <<"t","r","i","l","j","a","r","d">>, <<"q","u","a","d","r","i","l","j","o","e","n">>, <<"q","u","a","d","r","i","l","j","a","r","d">>,
     <<"q","u","i","n","t","i","l","j","o","e","n">>, <<"q","u","i","n","t","i","l","j","a","r","d">>, <<"s","e","x","t","i","l","j","o","e","n">>, <<"s","e","x","t","i","l","j","a","r","d">>,
     <<"s","e","p","t","i","l","j","o","e","n">>, <<"s","e","p","t","i","l","j","a","r","d">>, <<"o","c","t","i","l","j","o","e","n">>, <<"o","c","t","i","l","j","a","r","d">>,
     <<"n","o","n","i","l","j","o","e","n">>, <<"n","o","n","i","l","j","a","r","d">>, <<"d","e","c","i","l","j","o","e","n">>, <<"d","e","c","i","l","j","a","r","d">> >>

hundred(l) == IF l = "nl" THEN <<"h","o","n","d","e","r","d">> ELSE <<"h","û","n","d","e","r","t">>
zero_word == <<"n","u","l">>
minus == <<"m","i","n","u","s">>
komma == <<"k","o","m","m","a">>
space == << " " >>

(***************************************************************************)
(* String helpers (std::string / slice operations used by the source).     *)
(***************************************************************************)
RECURSIVE join(_)
\* words.join(""): concatenation of the tokens (by halves)
join(words) ==
  IF words = << >> THEN << >>
  ELSE IF Len(words) = 1 THEN words[1]
  ELSE join(SubSeq(words, 1, Len(words) \div 2))
       \o join(SubSeq(words, Len(words) \div 2 + 1, Len(words)))

\* s.ends_with(t)
ends_with(s, t) ==
  /\ Len(s) >= Len(t)
  /\ SubSeq(s, Len(s) - Len(t) + 1, Len(s)) = t

\* slice.contains(&word)
contains(table, word) == \E k \in 1..Len(table) : table[k] = word

\* Vec::insert(index, element), index counted from 0
insert(words, index, e) ==
  SubSeq(words, 1, index) \o << e >> \o SubSeq(words, index + 1, Len(words))

(***************************************************************************)
(* BigFloat (num_bigfloat): exact decimal arithmetic on the digit record.  *)
(***************************************************************************)
\* the index of the last nonzero digit of d, 0 when there is none
last_nonzero(d) ==
  IF \A k \in 1..Len(d) : d[k] = 0 THEN 0
  ELSE CHOOSE k \in 1..Len(d) :
         d[k] # 0 /\ \A j \in (k + 1)..Len(d) : d[j] = 0

\* drop leading zeros of an integer part (stored least significant first)
strip_high(d) == SubSeq(d, 1, last_nonzero(d))

\* drop trailing zeros of a fraction (stored tenths first)
strip_low(d) == SubSeq(d, 1, last_nonzero(d))

reverse(d) == [k \in 1..Len(d) |-> d[Len(d) + 1 - k]]

zeros(n) == [k \in 1..n |-> 0]

\* a finite value from its sign and digits; zero carries no sign
BigFloat(neg, ip, fp) ==
  LET i == strip_high(ip)
      f == strip_low(fp)
  IN  [inf |-> FALSE, neg |-> neg /\ (i # << >> \/ f # << >>),
       ip |-> i, fp |-> f]

\* BigFloat::from(n) for a native integer n >= 0
RECURSIVE digits_of(_)
digits_of(n) == IF n = 0 THEN << >> ELSE << n % 10 >> \o digits_of(n \div 10)

from(n) == BigFloat(FALSE, digits_of(n), << >>)

is_inf(b) == b.inf
is_inf_pos(b) == b.inf /\ ~b.neg
is_inf_neg(b) == b.inf /\ b.neg
is_zero(b) == ~b.inf /\ b.ip = << >> /\ b.fp = << >>
is_negative(b) == b.neg
\* num.int(): the integer part, truncated toward zero
int(b) == BigFloat(b.neg, b.ip, << >>)
\* num.frac(): the fractional part
frac(b) == BigFloat(b.neg, << >>, b.fp)
\* -num, num.inv_sign()
inv_sign(b) == IF b.inf THEN [b EXCEPT !.neg = ~b.neg]
               ELSE BigFloat(~b.neg, b.ip, b.fp)

\* num / 10^k: the low k integer digits move behind the decimal point
div_pow10(b, k) ==
  LET low == SubSeq(b.ip, 1, IF Len(b.ip) < k THEN Len(b.ip) ELSE k)
      moved == zeros(k - Len(low)) \o reverse(low)
  IN  BigFloat(b.neg, SubSeq(b.ip, k + 1, Len(b.ip)), moved \o b.fp)

\* num % 10^k: the remainder keeps the sign of num and its fraction
rem_pow10(b, k) ==
  BigFloat(b.neg, SubSeq(b.ip, 1, IF Len(b.ip) < k THEN Len(b.ip) ELSE k),
           b.fp)

\* num * 10^k: the first k fraction digits move before the decimal point
mul_pow10(b, k) ==
  LET high == SubSeq(b.fp, 1, IF Len(b.fp) < k THEN Len(b.fp) ELSE k)
      moved == zeros(k - Len(high)) \o reverse(high)
  IN  BigFloat(b.neg, moved \o b.ip, SubSeq(b.fp, k + 1, Len(b.fp)))

RECURSIVE value(_)
\* the native value of a digit string (least significant first)
value(d) == IF d = << >> THEN 0 ELSE d[1] + 10 * value(Tail(d))

\* to_u64().unwrap() on a value already reduced below 1000: truncates
to_u64(b) == value(b.ip)

(***************************************************************************)
(* Results: Ok(String) with the return site taken, Err(Num2Err), or the    *)
(* abort of an unwrap() on None.                                           *)
(***************************************************************************)
Ok(s, site) == [kind |-> "ok", str |-> s, err |-> "none", via |-> site]
Err(e) == [kind |-> "err", str |-> << >>, err |-> e, via |-> "none"]
Panic == [kind |-> "panic", str |-> << >>, err |-> "none", via |-> "none"]

(***************************************************************************)
(* The cardinal pipeline.                                                  *)
(***************************************************************************)
\* space_step with the arm for "minus" left out
space_step_without_minus(l, words, x) ==
  LET word == words[x + 1]
  IN  IF word = komma THEN insert(words, x, space)
      ELSE IF contains(MEGAS(l), word)
           THEN LET w1 == IF x # Len(words) - 1
                          THEN insert(words, x + 1, space) ELSE words
                IN  IF word # thousand(l) THEN insert(w1, x, space) ELSE w1
      ELSE words

\* space_step without the test for the last word (x != words.len() - 1)
space_step_after_last(l, words, x) ==
  LET word == words[x + 1]
  IN  IF word = minus THEN insert(words, x + 1, space)
      ELSE IF word = komma THEN insert(words, x, space)
      ELSE IF contains(MEGAS(l), word)
           THEN LET w1 == insert(words, x + 1, space)
                IN  IF word # thousand(l) THEN insert(w1, x, space) ELSE w1
      ELSE words

\* one iteration of the loop of space_words, at index x counted from 0
space_step(l, words, x) ==
  LET word == words[x + 1]
  IN  IF word = minus THEN insert(words, x + 1, space)
      ELSE IF word = komma THEN insert(words, x, space)
      ELSE IF contains(MEGAS(l), word)
           THEN LET w1 == IF x # Len(words) - 1
                          THEN insert(words, x + 1, space) ELSE words
                IN  IF word # thousand(l) THEN insert(w1, x, space) ELSE w1
      ELSE words

RECURSIVE space_loop(_, _, _, _)
\* the iterations of the loop of space_words for x = hi down to x = lo, in
\* that order: the upper half of the range, then the lower half on the
\* words the upper half left (an iteration only ever inserts, so the first
\* arm of the inner test is never taken; the test settles the upper half
\* before the lower half is started)
space_loop(l, words, hi, lo) ==
  IF hi < lo THEN words
  ELSE IF hi = lo THEN space_step(l, words, hi)
  ELSE LET mid == (hi + lo) \div 2
           upper == space_loop(l, words, hi, mid + 1)
       IN  IF Len(upper) < Len(words) THEN upper
           ELSE space_loop(l, upper, mid, lo)

\* for x in (0..words.len()).rev() { ... }
space_words(l, words) == space_loop(l, words, Len(words) - 1, 0)

RECURSIVE split_thousands_while_above_999(_)
\* the loop stopping as soon as the quotient is zero: the last group is lost
split_thousands_while_above_999(n) == IF is_zero(int(div_pow10(n, 3))) THEN << >> ELSE << to_u64(rem_pow10(n, 3)) >> \o split_thousands_while_above_999(div_pow10(n, 3))

RECURSIVE split_thousands(_)
\* while !num.int().is_zero() { push(num % 1000); num /= 1000 }
split_thousands(n) ==
  IF is_zero(int(n)) THEN << >>
  ELSE << to_u64(rem_pow10(n, 3)) >> \o split_thousands(div_pow10(n, 3))

\* the fused token always built with "en"
tens_units_word_plain_conjunction(l, tens, units) == IF tens = 0 THEN UNITS(l)[units] ELSE IF tens = 1 THEN TEENS(l)[units + 1] ELSE IF units = 0 THEN TENS(l)[tens] ELSE UNITS(l)[units] \o <<"e","n">> \o TENS(l)[tens]

\* the word pushed for a nonzero tens/units pair (match tens { ... })
tens_units_word(l, tens, units) ==
  IF tens = 0 THEN UNITS(l)[units]
  ELSE IF tens = 1 THEN TEENS(l)[units + 1]
  ELSE LET ten == TENS(l)[tens]
       IN  IF units = 0 THEN ten
           ELSE IF ends_with(UNITS(l)[units], << "e" >>)
                THEN UNITS(l)[units] \o <<"ë","n">> \o ten
                ELSE UNITS(l)[units] \o <<"e","n">> \o ten

\* the hundreds tokens of a triplet
hundreds_words(l, words, hundreds) ==
  IF hundreds > 0
  THEN (IF hundreds > 1 THEN Append(words, UNITS(l)[hundreds]) ELSE words)
       \o << hundred(l) >>
  ELSE words

\* the conjunction token between a higher group and the ones group
joiner_words(l, words, i, first_elem) ==
  IF i = 0 /\ ~first_elem /\ words # << >>
     /\ ~contains(MEGAS(l), words[Len(words)])
  THEN IF ends_with(words[Len(words)], << "e" >>)
       THEN Append(words, <<"ë","n">>) ELSE Append(words, <<"e","n">>)
  ELSE words

\* the overflow test off by one: i >= MEGAS.len()
scale_overflow_at_last(l, i) == i >= Len(MEGAS(l))

\* if i > MEGAS.len() { return Err(CannotConvert) }
scale_overflow(l, i) == i > Len(MEGAS(l))

\* the tens/units tokens of a triplet, after the conjunction they call for
tens_words(l, words, i, first_elem, tens, units) ==
  IF tens # 0 \/ units # 0
  THEN Append(joiner_words(l, words, i, first_elem),
              tens_units_word(l, tens, units))
  ELSE words

\* the scale word pushed for every group above the ones, zero or not
mega_words_for_every_group(l, words, i, triplet) == IF i # 0 THEN Append(words, MEGAS(l)[i]) ELSE words

\* the scale word of a nonzero group above the ones
mega_words(l, words, i, triplet) ==
  IF i # 0 /\ triplet # 0 THEN Append(words, MEGAS(l)[i]) ELSE words

\* first_elem = false once a group above the ones pushed tens or units
\* (and, as the source has it, whenever the conjunction is not considered)
first_elem_after(triplet, i, first_elem) ==
  IF ((triplet \div 10) % 10 # 0 \/ triplet % 10 # 0)
     /\ ~(i = 0 /\ ~first_elem)
  THEN FALSE ELSE first_elem

\* the body of the loop over the triplets for the group of index i (from 0),
\* on the words pushed so far and the first_elem flag
triplet_words(l, triplet, i, words, first_elem) ==
  IF i # 0 /\ triplet # 0 /\ scale_overflow(l, i)
  THEN [failed |-> TRUE, words |-> << >>,
        first_elem |-> first_elem_after(triplet, i, first_elem)]
  ELSE [failed |-> FALSE,
        words |-> mega_words(l,
                    tens_words(l,
                      hundreds_words(l, words, (triplet \div 100) % 10),
                      i, first_elem, (triplet \div 10) % 10, triplet % 10),
                    i, triplet),
        first_elem |-> first_elem_after(triplet, i, first_elem)]

RECURSIVE assemble(_, _, _, _)
\* for (i, triplet) in split_thousands(num).iter().enumerate().rev(): the
\* loop's state once the groups from the most significant down to index i
\* have been processed, or the early return of Err
assemble(l, triplets, i, words) ==
  IF i > Len(triplets) - 1
  THEN [failed |-> FALSE, words |-> words, first_elem |-> TRUE]
  ELSE LET before == assemble(l, triplets, i + 1, words)
       IN  IF before.failed THEN before
           ELSE triplet_words(l, triplets[i + 1], i, before.words,
                              before.first_elem)

\* space_words(&mut words); Ok(words.join("")), unless the loop that made
\* the words ended the call with the given failure
joined(l, r, failure, site) ==
  IF r.failed THEN failure ELSE Ok(join(space_words(l, r.words)), site)

\* int_to_cardinal without the special case for zero
int_to_cardinal_without_zero(l, n) ==
  joined(l,
    assemble(l,
      split_thousands(IF is_negative(n) THEN inv_sign(n) ELSE n), 0,
      IF is_negative(n) THEN << minus >> ELSE << >>),
    Err("CannotConvert"), "assembled")

\* fn int_to_cardinal: zero, the sign, the triplets from the most
\* significant down, then the spacing pass and the join
int_to_cardinal(l, n) ==
  IF is_zero(n) THEN Ok(zero_word, "zero")
  ELSE joined(l,
         assemble(l,
           split_thousands(IF is_negative(n) THEN inv_sign(n) ELSE n), 0,
           IF is_negative(n) THEN << minus >> ELSE << >>),
         Err("CannotConvert"), "assembled")

\* the loop over the fractional digits; abs_u64 is whether to_u64() yields
\* the magnitude of a negative digit (TRUE) or None (FALSE)
RECURSIVE frac_digits(_, _, _, _)
frac_digits(l, words, ordinal_part, abs_u64) ==
  IF is_zero(ordinal_part) THEN [failed |-> FALSE, words |-> words]
  ELSE
    LET digit == int(mul_pow10(ordinal_part, 1))
        rest == frac(mul_pow10(ordinal_part, 1))
    IN  IF is_negative(digit) /\ ~abs_u64
        THEN [failed |-> TRUE, words |-> << >>]
        ELSE frac_digits(l,
               words \o << space,
                           IF to_u64(digit) = 0 THEN zero_word
                           ELSE UNITS(l)[to_u64(digit)] >>,
               rest, abs_u64)

\* float_words without the push of the decimal-marker word
float_words_without_komma(l, integral_word, ordinal_part, abs_u64) == IF integral_word.kind # "ok" THEN integral_word ELSE joined(l, frac_digits(l, << integral_word.str >>, ordinal_part, abs_u64), Panic, "float")

\* float_to_cardinal after let integral_word = self.int_to_cardinal(..)?:
\* "komma" and the digits, then space_words and join; unwrap() on None aborts
float_words(l, integral_word, ordinal_part, abs_u64) ==
  IF integral_word.kind # "ok" THEN integral_word
  ELSE joined(l,
         frac_digits(l,
           IF is_zero(ordinal_part) THEN << integral_word.str >>
           ELSE << integral_word.str, komma >>,
           ordinal_part, abs_u64),
         Panic, "float")

float_to_cardinal(l, n, abs_u64) ==
  float_words(l, int_to_cardinal(l, int(n)), frac(n), abs_u64)

(***************************************************************************)
(* impl Language: the register composers.                                  *)
(***************************************************************************)
infinity_word(l) == IF l = "nl" THEN <<"o","n","e","i","n","d","i","g">> ELSE <<"û","n","e","i","n","i","c","h">>
\* the negative literal replaced by the positive one
negative_infinity_word_unsigned(l) == infinity_word(l)

negative_infinity_word(l) ==
  IF l = "nl" THEN <<"n","e","g","a","t","i","e","f"," ","o","n","e","i","n","d","i","g">> ELSE <<"n","e","g","a","t","y","f"," ","û","n","e","i","n","i","c","h">>

to_cardinal(l, n, abs_u64) ==
  IF is_inf_pos(n) THEN Ok(infinity_word(l), "inf")
  ELSE IF is_inf_neg(n) THEN Ok(negative_infinity_word(l), "inf")
  ELSE IF is_zero(frac(n)) THEN int_to_cardinal(l, n)
  ELSE float_to_cardinal(l, n, abs_u64)

\* str::split(c): the segments of s between the occurrences of character c
split_on(s, c) ==
  LET cuts == {0, Len(s) + 1} \cup {k \in 1..Len(s) : s[k] = c}
      nth(n) == CHOOSE k \in cuts : Cardinality({j \in cuts : j < k}) = n - 1
  IN  [n \in 1..(Cardinality(cuts) - 1) |->
         SubSeq(s, nth(n) + 1, nth(n + 1) - 1)]

\* str::split_whitespace: the non-empty runs between spaces
split_whitespace(s) == SelectSeq(split_on(s, " "), LAMBDA w : w # << >>)

\* words.join(sep): the separator between every two neighbours
join_with(words, sep) ==
  join([k \in 1..(2 * Len(words) - 1) |->
          IF k % 2 = 1 THEN words[(k + 1) \div 2] ELSE sep])

\* the closed table of to_ordinal: match suffix.as_str() { "one" => ... }
ordinal_table(l) ==
  IF l = "nl"
  THEN << << <<"o","n","e">>, <<"e","e","r","s","t","e">> >>, << <<"t","w","o">>, <<"t","w","e","e","d","e">> >>,
          << <<"t","h","r","e","e">>, <<"d","e","r","d","e">> >>, << <<"f","o","u","r">>, <<"v","i","e","r","d","e">> >>,
          << <<"f","i","v","e">>, <<"v","i","j","f","d","e">> >>, << <<"s","i","x">>, <<"z","e","s","d","e">> >>,
          << <<"s","e","v","e","n">>, <<"z","e","v","e","n","d","e">> >>, << <<"e","i","g","h","t">>, <<"a","c","h","t","s","t","e">> >>,
          << <<"n","i","n","e">>, <<"n","e","g","e","n","d","e">> >>, << <<"t","e","n">>, <<"t","i","e","n","d","e">> >>,
          << <<"e","l","e","v","e","n">>, <<"e","l","f","d","e">> >>, << <<"t","w","e","l","v","e">>, <<"t","w","a","a","l","f","d","e">> >> >>
  ELSE << << <<"o","n","e">>, <<"e","a","r","s","t","e">> >>, << <<"t","w","o">>, <<"t","w","a","d","d","e">> >>,
          << <<"t","h","r","e","e">>, <<"t","r","e","d","d","e">> >>, << <<"f","o","u","r">>, <<"f","j","i","r","d","e">> >>,
          << <<"f","i","v","e">>, <<"v","i","j","f","d","e">> >>, << <<"s","i","x">>, <<"s","e","c","h","s","d","e">> >>,
          << <<"s","e","v","e","n">>, <<"s","â","n","d","e">> >>, << <<"e","i","g","h","t">>, <<"a","c","h","t","s","t","e">> >>,
          << <<"n","i","n","e">>, <<"n","j","o","g","g","e","n","d","e">> >>, << <<"t","e","n">>, <<"t","s","i","e","n","d","e">> >>,
          << <<"e","l","e","v","e","n">>, <<"a","l","f","d","e">> >>, << <<"t","w","e","l","v","e">>, <<"t","o","l","f","d","e">> >> >>

\* the "-ty" morpheme tested by the default arm
ty_suffix(l) == IF l = "nl" THEN <<"t","i","g">> ELSE <<"t","i","c","h">>

\* suffix = match suffix.as_str() { ... }
ordinal_suffix(l, suffix) ==
  IF \E k \in 1..12 : ordinal_table(l)[k][1] = suffix
  THEN ordinal_table(l)[CHOOSE k \in 1..12 : ordinal_table(l)[k][1] = suffix][2]
  ELSE IF ends_with(suffix, ty_suffix(l)) THEN suffix \o <<"s","t","e">>
  ELSE suffix \o <<"d","e">>

\* prefix + suffix of the last word: the part before a hyphen is kept, the
\* part after it (the whole word without a hyphen) is rewritten
ordinal_parts(l, w, parts) ==
  IF Len(parts) > 1
  THEN parts[1] \o << "-" >> \o ordinal_suffix(l, parts[2])
  ELSE ordinal_suffix(l, w)

\* the rewriting of the last whitespace-delimited word
ordinal_last_word(l, w) == ordinal_parts(l, w, split_on(w, "-"))

\* the words of the cardinal with the last one rewritten, joined by " "
ordinal_words(l, split) ==
  join_with([k \in 1..Len(split) |->
               IF k < Len(split) THEN split[k]
               ELSE ordinal_last_word(l, split[k])], space)

\* to_ordinal after let cardinal_word = self.to_cardinal(num)?
ordinal_of(l, cardinal_word) ==
  IF cardinal_word.kind # "ok" THEN cardinal_word
  ELSE Ok(ordinal_words(l, split_whitespace(cardinal_word.str)), "ordinal")

to_ordinal(l, n, abs_u64) == ordinal_of(l, to_cardinal(l, n, abs_u64))

\* i64::MAX and u128::MAX as decimal digits, most significant first
I64_MAX == << 9,2,2,3,3,7,2,0,3,6,8,5,4,7,7,5,8,0,7 >>
U128_MAX == << 3,4,0,2,8,2,3,6,6,9,2,0,9,3,8,4,6,3,4,
               6,3,3,7,4,6,0,7,4,3,1,7,6,8,2,1,1,4,5,5 >>

\* whether the integer with digits ip (least significant first) is <= max
fits(ip, max) ==
  \/ Len(ip) < Len(max)
  \/ /\ Len(ip) = Len(max)
     /\ LET a == reverse(ip)
        IN  \/ a = max
            \/ \E k \in 1..Len(max) :
                 /\ a[k] < max[k]
                 /\ \A j \in 1..(k - 1) : a[j] = max[j]

\* to_i64(): the truncated value, or None when it is out of range of i64
to_i64(b) ==
  IF fits(b.ip, I64_MAX) THEN [some |-> TRUE, digits |-> b.ip]
  ELSE [some |-> FALSE, digits |-> << >>]

\* to_u128(): the truncated value, or None when it is out of range of u128
to_u128(b) ==
  IF fits(b.ip, U128_MAX) THEN [some |-> TRUE, digits |-> b.ip]
  ELSE [some |-> FALSE, digits |-> << >>]

digit_char(d) == << "0", "1", "2", "3", "4", "5", "6", "7", "8", "9" >>[d + 1]

\* format!("{}", n) of a native unsigned integer
decimal(ip) ==
  IF ip = << >> THEN << "0" >>
  ELSE [k \in 1..Len(ip) |-> digit_char(ip[Len(ip) + 1 - k])]

to_ordinal_num(l, n) ==
  LET tail == to_u64(rem_pow10(n, 2))
      last == tail % 10
      u == to_u128(n)
      suffix == IF tail \div 10 # 1 /\ last = 1 THEN <<"e">>
                ELSE IF tail \div 10 # 1 /\ last = 2 THEN <<"e">>
                ELSE IF tail \div 10 # 1 /\ last = 3 THEN <<"e">>
                ELSE <<"e">>
  IN  IF ~u.some THEN Panic
      ELSE Ok(decimal(u.digits) \o suffix, "ordinal_num")

bc_suffix(l) ==
  IF l = "nl" THEN <<" ","v","o","o","r"," ","c","h","r","i","s","t","u","s">> ELSE <<" ","f","o","a","r"," ","k","r","i","s","t","u","s">>

\* the heuristic taking every year below 1000 as one cardinal (high < 10)
year_goes_cardinal_below_1000(high, low) ==
  \/ Len(high) <= 1
  \/ (high[1] = 0 /\ low < 10)
  \/ Len(high) >= 3

\* high == 0 || (high % 10 == 0 && low < 10) || high >= 100, on the digits
\* of high (least significant first) and the native value of low
year_goes_cardinal(high, low) ==
  \/ high = << >>
  \/ (high[1] = 0 /\ low < 10)
  \/ Len(high) >= 3

\* word?, then format!("{}{}", word, suffix)
suffixed(word, suffix, site) ==
  IF word.kind # "ok" THEN word ELSE Ok(word.str \o suffix, site)

\* high_word? and low_word?, then format!("{}{}", high_word, low_word)
chunks(high_word, low_word) ==
  IF high_word.kind # "ok" THEN high_word
  ELSE IF low_word.kind # "ok" THEN low_word
  ELSE Ok(high_word.str \o low_word.str, "chunks")

\* year_word and the suffix, for the two halves (high, low) of num; an
\* unwrap() of to_i64() on None aborts
year_word(l, n, suffix, high, low) ==
  IF ~high.some \/ ~low.some THEN Panic
  ELSE IF year_goes_cardinal(high.digits, value(low.digits))
  THEN suffixed(int_to_cardinal(l, n), suffix, "year_cardinal")
  ELSE suffixed(
         chunks(int_to_cardinal(l, BigFloat(FALSE, high.digits, << >>)),
                IF value(low.digits) = 0 THEN Ok(hundred(l), "hundred")
                ELSE int_to_cardinal(l, from(value(low.digits)))),
         suffix, "year_chunks")

\* the halves of a non-negative num: (num / 100).to_i64(), (num % 100).to_i64()
year_halves(l, n, suffix) ==
  year_word(l, n, suffix, to_i64(div_pow10(n, 2)),
            to_i64(rem_pow10(n, 2)))

\* to_year() without its check of the fractional part
to_year_without_fraction_check(l, n) == year_halves(l, IF is_negative(n) THEN inv_sign(n) ELSE n, IF is_negative(n) THEN bc_suffix(l) ELSE << >>)

to_year(l, n) ==
  IF ~is_zero(frac(n)) THEN Err("FloatingYear")
  ELSE year_halves(l, IF is_negative(n) THEN inv_sign(n) ELSE n,
                   IF is_negative(n) THEN bc_suffix(l) ELSE << >>)

\* Currency::DOLLAR: default_string(false) and default_subunit_string
currencies == <<"d","o","l","l","a","r">>
cents_suffix == <<"c","e","n","t">>

\* the cents rounded half up instead of truncated
cents_nb_rounded(n) ==
  LET scaled == mul_pow10(n, 2)
      truncated == rem_pow10(int(scaled), 2)
  IN  IF scaled.fp # << >> /\ scaled.fp[1] >= 5
      THEN BigFloat(n.neg, digits_of((to_u64(truncated) + 1) % 100), << >>)
      ELSE truncated

\* (num * 100).int() % 100
cents_nb(n) == rem_pow10(int(mul_pow10(n, 2)), 2)

\* currency_phrase without the arm for a zero integral part
currency_phrase_without_minor_only(integral_part, cents, integral_word, cents_words) ==
  IF cents_words.kind # "ok" THEN cents_words
  ELSE IF integral_word.kind # "ok" THEN integral_word
  ELSE IF is_zero(cents) THEN integral_word
  ELSE Ok(integral_word.str \o <<" ","e","n"," ">> \o cents_words.str
          \o space \o cents_suffix, "both")

\* currency_phrase testing the integral part before the cents
currency_phrase_integral_first(integral_part, cents, integral_word, cents_words) ==
  IF cents_words.kind # "ok" THEN cents_words
  ELSE IF integral_word.kind # "ok" THEN integral_word
  ELSE IF is_zero(integral_part)
  THEN Ok(cents_words.str \o space \o cents_suffix, "minor")
  ELSE IF is_zero(cents) THEN integral_word
  ELSE Ok(integral_word.str \o <<" ","e","n"," ">> \o cents_words.str
          \o space \o cents_suffix, "both")

\* cents_words? and integral_word?, then the three-way composition of the
\* major and the minor phrase
currency_phrase(integral_part, cents, integral_word, cents_words) ==
  IF cents_words.kind # "ok" THEN cents_words
  ELSE IF integral_word.kind # "ok" THEN integral_word
  ELSE IF is_zero(cents) THEN integral_word
  ELSE IF is_zero(integral_part)
  THEN Ok(cents_words.str \o space \o cents_suffix, "minor")
  ELSE Ok(integral_word.str \o <<" ","e","n"," ">> \o cents_words.str
          \o space \o cents_suffix, "both")

RECURSIVE to_currency(_, _)
to_currency(l, n) ==
  IF is_inf(n)
  THEN Ok((IF is_negative(n) THEN <<"m","i","n","u","s"," ">> ELSE << >>)
          \o infinity_word(l) \o space \o currencies, "inf")
  ELSE IF is_zero(frac(n))
  THEN suffixed(int_to_cardinal(l, n), space \o currencies, "major")
  ELSE currency_phrase(int(n), cents_nb(n), to_currency(l, int(n)),
                       int_to_cardinal(l, cents_nb(n)))

(***************************************************************************)
(* The builder's dispatch on the requested register, with the input checks *)
(* it makes before calling the locale.                                     *)
(***************************************************************************)
Registers == {"cardinal", "ordinal", "ordinal_num", "year", "currency"}

\* the dispatch with the check of the fractional part left out
rejected_without_fraction_check(n, reg) == IF reg = "year" THEN (IF is_inf(n) THEN "InfiniteYear" ELSE "none") ELSE IF reg \in {"ordinal", "ordinal_num"} THEN (IF is_inf(n) THEN "InfiniteOrdinal" ELSE IF is_negative(n) THEN "NegativeOrdinal" ELSE "none") ELSE "none"

\* the error with which to_words() turns a number away before the language
\* is called, "none" when it hands the number over
rejected(n, reg) ==
  IF reg = "year"
  THEN IF is_inf(n) THEN "InfiniteYear" ELSE "none"
  ELSE IF reg \in {"ordinal", "ordinal_num"}
  THEN IF is_inf(n) THEN "InfiniteOrdinal"
       ELSE IF is_negative(n) THEN "NegativeOrdinal"
       ELSE IF ~is_zero(frac(n)) THEN "FloatingOrdinal"
       ELSE "none"
  ELSE "none"

\* to_words(): the language's answer unless the number was turned away
to_words(n, reg, answer) ==
  IF rejected(n, reg) # "none" THEN Err(rejected(n, reg)) ELSE answer

(***************************************************************************)
(* The inputs: the values a caller can hand over as a BigFloat.            *)
(***************************************************************************)
\* decimal digits of the mantissa of a BigFloat
DECIMAL_POSITIONS == 40

\* the three digits of a triplet, least significant first
group3(v) == << v % 10, (v \div 10) % 10, v \div 100 >>

\* the number of zeros d starts with
low_zeros(d) ==
  IF \A k \in 1..Len(d) : d[k] = 0 THEN Len(d)
  ELSE (CHOOSE k \in 1..Len(d) :
          d[k] # 0 /\ \A j \in 1..(k - 1) : d[j] = 0) - 1

\* the number of digits from the first to the last nonzero digit
significant(ip, fp) ==
  IF ip # << >>
  THEN Len(ip) + Len(fp) - (IF fp = << >> THEN low_zeros(ip) ELSE 0)
  ELSE Len(fp) - low_zeros(fp)

Representable(ip, fp) == significant(ip, fp) <= DECIMAL_POSITIONS

\* every integer up to MaxSmall
SmallInts == { digits_of(n) : n \in 0..MaxSmall }

\* years around the branches of the year heuristic
Centuries == {1, 2, 9, 10, 11, 15, 19, 20, 21, 50, 55, 99, 100, 101, 123}
Remainders == {0, 1, 9, 10, 11, 22, 55, 90, 99}
YearInts == { digits_of(c * 100 + r) : c \in Centuries, r \in Remainders }

\* a nonzero group at index i, an optional group below it, and a ones group
HighVals == {1, 28, 100, 999}
MidVals == {0, 101}
LowVals == {0, 2, 21, 102}
BigInts ==
  { strip_high(group3(lo) \o zeros(3 * (i - 2)) \o group3(mid) \o group3(hv)) :
      lo \in LowVals, mid \in MidVals, hv \in HighVals, i \in 2..MaxIdx }

\* a group of thousands over a ones group
ThousandVals == {1, 28, 100, 101, 999}
OnesVals == {0, 2, 10, 21, 100, 102, 300}
ThousandInts ==
  { strip_high(group3(lo) \o group3(hv)) : lo \in OnesVals, hv \in ThousandVals }

\* the values at the edge of i64 for the century part, and of u128
EdgeInts ==
  { reverse(I64_MAX \o << 9, 9 >>),
    reverse(<< 9,2,2,3,3,7,2,0,3,6,8,5,4,7,7,5,8,0,8 >> \o << 0, 0 >>),
    reverse(U128_MAX),
    reverse(<< 3,4,0,2,8,2,3,6,6,9,2,0,9,3,8,4,6,3,4,
               6,3,3,7,4,6,0,7,4,3,1,7,6,8,2,1,1,4,5,6 >>) }

IntParts ==
  SmallInts \cup YearInts \cup ThousandInts \cup BigInts \cup EdgeInts

\* fractions of up to MaxFracLen digits, and the integer parts they come with
FracDigits == {0, 1, 5, 9}
FracParts ==
  { f \in UNION { [1..n -> FracDigits] : n \in 1..MaxFracLen } : f[Len(f)] # 0 }
FracIntParts == { digits_of(n) : n \in {0, 1, 2, 12, 4000, 100000} }

Magnitudes ==
  { [ip |-> i, fp |-> << >>] : i \in IntParts }
  \cup { [ip |-> i, fp |-> f] : i \in FracIntParts, f \in FracParts }

Finite ==
  { BigFloat(s, m.ip, m.fp) :
      s \in BOOLEAN, m \in { x \in Magnitudes : Representable(x.ip, x.fp) } }

Infinite == { [inf |-> TRUE, neg |-> s, ip |-> << >>, fp |-> << >>] :
                s \in BOOLEAN }

Inputs == Finite \cup Infinite

NoResult == [kind |-> "none", str |-> << >>, err |-> "none", via |-> "none"]

(***************************************************************************)
(* The state machine: a caller builds a request (locale, value) and asks   *)
(* for one register.                                                       *)
(***************************************************************************)
Init ==
  /\ lang \in Langs
  /\ num \in Inputs
  /\ register = "none"
  /\ result = NoResult
  /\ pc = "ready"

\* .cardinal().to_words(); what to_u64() makes of a negative fractional
\* digit is the library's choice
Cardinal ==
  /\ pc = "ready"
  /\ \E abs_u64 \in BOOLEAN :
       result' = to_words(num, "cardinal", to_cardinal(lang, num, abs_u64))
  /\ register' = "cardinal"
  /\ pc' = "done"
  /\ UNCHANGED <<lang, num>>

\* .ordinal().to_words()
Ordinal ==
  /\ pc = "ready"
  /\ result' = to_words(num, "ordinal", to_ordinal(lang, num, TRUE))
  /\ register' = "ordinal"
  /\ pc' = "done"
  /\ UNCHANGED <<lang, num>>

\* .ordinal_num().to_words()
OrdinalNum ==
  /\ pc = "ready"
  /\ result' = to_words(num, "ordinal_num", to_ordinal_num(lang, num))
  /\ register' = "ordinal_num"
  /\ pc' = "done"
  /\ UNCHANGED <<lang, num>>

\* .year().to_words()
Year ==
  /\ pc = "ready"
  /\ result' = to_words(num, "year", to_year(lang, num))
  /\ register' = "year"
  /\ pc' = "done"
  /\ UNCHANGED <<lang, num>>

\* .currency(Currency::DOLLAR).to_words()
CurrencyOf ==
  /\ pc = "ready"
  /\ result' = to_words(num, "currency", to_currency(lang, num))
  /\ register' = "currency"
  /\ pc' = "done"
  /\ UNCHANGED <<lang, num>>

Next == Cardinal \/ Ordinal \/ OrdinalNum \/ Year \/ CurrencyOf

Spec == Init /\ [][Next]_vars

(***************************************************************************)
(* Properties.                                                             *)
(***************************************************************************)
\* a finite value without fraction
is_integer(b) == ~b.inf /\ b.fp = << >>

\* |b| < 10^66: at most 66 decimal digits before the point
below_limit(b) == Len(b.ip) <= 66

\* t occurs in s
occurs(s, t) ==
  \E k \in 1..(Len(s) - Len(t) + 1) : SubSeq(s, k, k + Len(t) - 1) = t

starts_with(s, t) == Len(s) >= Len(t) /\ SubSeq(s, 1, Len(t)) = t

\* no two neighbours of s are both e
no_double(s, e) == \A k \in 1..(Len(s) - 1) : ~(s[k] = e /\ s[k + 1] = e)

\* the cardinal of the native integer v with the sign neg
cardinal_of(l, neg, v) == int_to_cardinal(l, BigFloat(neg, digits_of(v), << >>))

\* C1: for every positive integer n below 10^66, in both locales, the
\* cardinal of -n is "minus", exactly one space, then the cardinal of n.
C1_NegativeCardinal ==
  (pc = "done" /\ register = "cardinal" /\ is_integer(num) /\ num.neg
   /\ below_limit(num))
  => LET positive == to_cardinal(lang, inv_sign(num), TRUE)
     IN  /\ positive.kind = "ok"
         /\ result.kind = "ok"
         /\ result.str = <<"m","i","n","u","s"," ">> \o positive.str

\* a negative integer with a group at the highest scale word was converted
C1_Witness ==
  /\ pc = "done" /\ register = "cardinal" /\ is_integer(num) /\ num.neg
  /\ Len(num.ip) >= 64 /\ below_limit(num)
  /\ result.kind = "ok" /\ starts_with(result.str, <<"m","i","n","u","s"," ">>)

\* C2: an integer cardinal fails with CannotConvert exactly when |n| >= 10^66
\* (a nonzero group at index > 21); below, a string is returned, and the
\* group at index 21 is named "deciljard"; a failure carries no string.
C2_CannotConvert ==
  (pc = "done" /\ register = "cardinal" /\ is_integer(num))
  => /\ (~below_limit(num) <=> result = Err("CannotConvert"))
     /\ (below_limit(num) => result.kind = "ok" /\ result.str # << >>)
     /\ (Len(num.ip) \in 64..66 => occurs(result.str, <<"d","e","c","i","l","j","a","r","d">>))
     /\ (result.kind # "ok" => result.str = << >>)

\* 10^66 itself was refused
C2_Witness ==
  /\ pc = "done" /\ register = "cardinal" /\ is_integer(num)
  /\ Len(num.ip) = 67 /\ num.ip[67] = 1
  /\ \A k \in 1..66 : num.ip[k] = 0
  /\ result = Err("CannotConvert")

\* C3: for every non-negative integer below 10^66 the cardinal is
\* non-empty, has no two consecutive spaces and no leading or trailing
\* space, and no two separator tokens are adjacent after the spacing pass.
C3_NoSpaceArtifacts ==
  (pc = "done" /\ register = "cardinal" /\ is_integer(num) /\ ~num.neg
   /\ below_limit(num))
  => /\ result.kind = "ok"
     /\ result.str # << >>
     /\ result.str[1] # " "
     /\ result.str[Len(result.str)] # " "
     /\ no_double(result.str, " ")
     /\ no_double(space_words(lang,
                    assemble(lang, split_thousands(num), 0, << >>).words),
                  space)

\* a cardinal of three or more groups, with spaces in it, was produced
C3_Witness ==
  /\ pc = "done" /\ register = "cardinal" /\ is_integer(num) /\ ~num.neg
  /\ Len(num.ip) > 6 /\ below_limit(num)
  /\ result.kind = "ok" /\ occurs(result.str, << " " >>)
  /\ occurs(result.str, thousand(lang))

\* C4: the cardinal of 0 is exactly "nul" in both locales, returned by the
\* special case for zero, before any decomposition into triplets.
C4_Zero ==
  (pc = "done" /\ register = "cardinal" /\ is_zero(num))
  => result = [kind |-> "ok", str |-> <<"n","u","l">>, err |-> "none",
               via |-> "zero"]

\* the Frisian cardinal of 0 was asked for
C4_Witness ==
  /\ pc = "done" /\ register = "cardinal" /\ is_zero(num) /\ lang = "fy"
  /\ result.str = <<"n","u","l">>

\* the year body of the magnitude with the digits ip: one cardinal when
\* high = 0, or high mod 10 = 0 and low < 10, or high >= 100; otherwise the
\* cardinal of high followed at once by the hundred word or the cardinal of
\* low
year_body(l, ip) ==
  LET high == SubSeq(ip, 3, Len(ip))
      low == value(SubSeq(ip, 1, IF Len(ip) < 2 THEN Len(ip) ELSE 2))
  IN  IF high = << >> \/ (high[1] = 0 /\ low < 10) \/ Len(high) >= 3
      THEN int_to_cardinal(l, BigFloat(FALSE, ip, << >>)).str
      ELSE int_to_cardinal(l, BigFloat(FALSE, high, << >>)).str
           \o (IF low = 0 THEN hundred(l) ELSE cardinal_of(l, FALSE, low).str)

\* C5: for every integer n, the year of n is the year body of |n|, followed
\* by the BC suffix iff n is negative.
C5_YearComposition ==
  (pc = "done" /\ register = "year" /\ is_integer(num))
  => /\ result.kind = "ok"
     /\ result.str = year_body(lang, num.ip)
                     \o (IF num.neg
                         THEN (IF lang = "nl" THEN <<" ","v","o","o","r"," ","c","h","r","i","s","t","u","s">>
                               ELSE <<" ","f","o","a","r"," ","k","r","i","s","t","u","s">>)
                         ELSE << >>)

\* the same, for the years whose conversion returns
C5_YearCompositionWhenReturning ==
  (pc = "done" /\ register = "year" /\ is_integer(num)
   /\ result.kind # "panic")
  => /\ result.kind = "ok"
     /\ result.str = year_body(lang, num.ip)
                     \o (IF num.neg
                         THEN (IF lang = "nl" THEN <<" ","v","o","o","r"," ","c","h","r","i","s","t","u","s">>
                               ELSE <<" ","f","o","a","r"," ","k","r","i","s","t","u","s">>)
                         ELSE << >>)

\* the examples of the year heuristic
C5_Examples ==
  (pc = "done" /\ register = "year" /\ lang = "nl")
  => /\ (num = from(1990) => result.str = <<"n","e","g","e","n","t","i","e","n","n","e","g","e","n","t","i","g">>)
     /\ (num = from(2001) => result.str = <<"t","w","e","e","d","u","i","z","e","n","d"," ","é","é","n">>)
     /\ (num = from(5500) => result.str = <<"v","i","j","f","e","n","v","i","j","f","t","i","g","h","o","n","d","e","r","d">>)

\* the year 922337203685477580800, whose century part is i64::MAX + 1, was
\* asked for and the conversion aborted
C5_Witness ==
  /\ pc = "done" /\ register = "year" /\ is_integer(num) /\ ~num.neg
  /\ num.ip = reverse(<< 9,2,2,3,3,7,2,0,3,6,8,5,4,7,7,5,8,0,8,0,0 >>)
  /\ result = Panic

\* C6 as stated: for every year n with 1 <= n <= 999 the year is the
\* cardinal of n.
C6_YearIsCardinalBelow1000 ==
  (pc = "done" /\ register = "year" /\ is_integer(num) /\ ~num.neg
   /\ Len(num.ip) \in 1..3)
  => /\ result.kind = "ok"
     /\ result.str = to_cardinal(lang, num, TRUE).str

\* C6 amended: for 1 <= n <= 999 the year is the cardinal of n exactly when
\* n <= 99 or n is one of 200, 300, ..., 900; every year from 100 to 999 is
\* the cardinal of n div 100 followed at once by the hundred word (n mod 100
\* = 0) or by the cardinal of n mod 100.
C6_YearIsCardinalBelow100 ==
  (pc = "done" /\ register = "year" /\ is_integer(num) /\ ~num.neg
   /\ Len(num.ip) \in 1..3)
  => LET n == value(num.ip)
     IN  /\ result.kind = "ok"
         /\ (result.str = to_cardinal(lang, num, TRUE).str
             <=> (n <= 99 \/ (n >= 200 /\ n % 100 = 0)))
         /\ (n >= 100 =>
               result.str = cardinal_of(lang, FALSE, n \div 100).str
                            \o (IF n % 100 = 0 THEN hundred(lang)
                                ELSE cardinal_of(lang, FALSE, n % 100).str))

\* the year 150 was spelled "éénvijftig"
C6_Witness ==
  /\ pc = "done" /\ register = "year" /\ lang = "nl" /\ num = from(150)
  /\ result.str = <<"é","é","n","v","i","j","f","t","i","g">>

\* the cent count of an amount: the first two digits of the fraction, with
\* the sign of the amount (the remainder of the truncated hundredfold)
minor_of(b) ==
  BigFloat(b.neg,
           digits_of(10 * (IF Len(b.fp) >= 1 THEN b.fp[1] ELSE 0)
                     + (IF Len(b.fp) >= 2 THEN b.fp[2] ELSE 0)),
           << >>)

major_phrase(l, b) == int_to_cardinal(l, int(b)).str \o <<" ","d","o","l","l","a","r">>

minor_phrase(l, b) == int_to_cardinal(l, minor_of(b)).str \o <<" ","c","e","n","t">>

\* C7: for a finite amount with nonzero fraction the currency phrase is the
\* major phrase alone when the cent count is 0, the minor phrase alone when
\* the integer part is 0 and the cent count is not, and otherwise the major
\* phrase, " en ", the minor phrase; for a finite amount without fraction
\* it is the cardinal of the amount and the major unit.
C7_CurrencyComposition ==
  (pc = "done" /\ register = "currency" /\ ~num.inf /\ below_limit(num))
  => /\ result.kind = "ok"
     /\ result.str =
          IF num.fp = << >>
          THEN to_cardinal(lang, num, TRUE).str \o <<" ","d","o","l","l","a","r">>
          ELSE IF is_zero(minor_of(num)) THEN major_phrase(lang, num)
          ELSE IF num.ip = << >> THEN minor_phrase(lang, num)
          ELSE major_phrase(lang, num) \o <<" ","e","n"," ">> \o minor_phrase(lang, num)

\* an amount below one unit with a nonzero cent count gave the minor phrase
C7_Witness ==
  /\ pc = "done" /\ register = "currency" /\ ~num.inf /\ ~num.neg
  /\ num.ip = << >> /\ num.fp = << 5 >>
  /\ lang = "nl" /\ result.str = <<"v","i","j","f","t","i","g"," ","c","e","n","t">>

\* floor(100 * v) mod 100 for the non-negative v with the digits ip, fp,
\* in native arithmetic (the whole hundreds of v add multiples of 100)
floor_cents(ip, fp) ==
  LET scale == 10 ^ Len(fp)
  IN  ((((value(ip) % 100) * scale + value(reverse(fp))) * 100) \div scale)
      % 100

\* C8: for every non-negative amount v with a fraction, the cent count used
\* is floor(100 v) mod 100, in 0..99: truncated, never rounded up into the
\* next unit; the phrase names that count, after the integer part of v.
C8_CentsTruncated ==
  (pc = "done" /\ register = "currency" /\ ~num.inf /\ ~num.neg
   /\ num.fp # << >>)
  => LET c == floor_cents(num.ip, num.fp)
     IN  /\ c \in 0..99
         /\ cents_nb(num) = from(c)
         /\ result.kind = "ok"
         /\ (c # 0 =>
               ends_with(result.str,
                         cardinal_of(lang, FALSE, c).str \o <<" ","c","e","n","t">>))
         /\ (num.ip # << >> =>
               starts_with(result.str, major_phrase(lang, num)))
         /\ (c # 0 /\ num.ip # << >> =>
               result.str = major_phrase(lang, num) \o <<" ","e","n"," ">>
                            \o cardinal_of(lang, FALSE, c).str \o <<" ","c","e","n","t">>)

\* the amount 1.999 gave one unit and ninety-nine cents
C8_Witness ==
  /\ pc = "done" /\ register = "currency" /\ ~num.inf /\ ~num.neg
  /\ num.ip = << 1 >> /\ num.fp = << 9, 9, 9 >> /\ lang = "nl"
  /\ result.str = <<"é","é","n"," ","d","o","l","l","a","r"," ","e","n"," ","n","e","g","e","n","e","n","n","e","g","e","n","t","i","g"," ","c","e","n","t">>

\* C9: for the amount 0, and for every amount whose integer part is 0 and
\* whose truncated cent count is 0, the currency phrase is exactly
\* "nul dollar": never empty, never the minor phrase alone.
C9_ZeroWorth ==
  (pc = "done" /\ register = "currency" /\ ~num.inf /\ num.ip = << >>
   /\ (Len(num.fp) >= 1 => num.fp[1] = 0)
   /\ (Len(num.fp) >= 2 => num.fp[2] = 0))
  => /\ result.kind = "ok"
     /\ result.str = <<"n","u","l"," ","d","o","l","l","a","r">>

\* the amount 0.005 was converted
C9_Witness ==
  /\ pc = "done" /\ register = "currency" /\ ~num.inf /\ ~num.neg
  /\ num.ip = << >> /\ num.fp = << 0, 0, 5 >>
  /\ result.str = <<"n","u","l"," ","d","o","l","l","a","r">>

\* the substituted forms of the closed table, for 1..12
reserved_ordinals(l) ==
  IF l = "nl"
  THEN << <<"e","e","r","s","t","e">>, <<"t","w","e","e","d","e">>, <<"d","e","r","d","e">>, <<"v","i","e","r","d","e">>, <<"v","i","j","f","d","e">>, <<"z","e","s","d","e">>,
          <<"z","e","v","e","n","d","e">>, <<"a","c","h","t","s","t","e">>, <<"n","e","g","e","n","d","e">>, <<"t","i","e","n","d","e">>, <<"e","l","f","d","e">>, <<"t","w","a","a","l","f","d","e">> >>
  ELSE << <<"e","a","r","s","t","e">>, <<"t","w","a","d","d","e">>, <<"t","r","e","d","d","e">>, <<"f","j","i","r","d","e">>, <<"v","i","j","f","d","e">>, <<"s","e","c","h","s","d","e">>,
          <<"s","â","n","d","e">>, <<"a","c","h","t","s","t","e">>, <<"n","j","o","g","g","e","n","d","e">>, <<"t","s","i","e","n","d","e">>, <<"a","l","f","d","e">>, <<"t","o","l","f","d","e">> >>

\* C10: for every n from 1 to 12, and every larger non-negative integer
\* whose cardinal ends in the word of one of 1..12, the ordinal is the
\* cardinal with that final word replaced by the table's form.
C10_OrdinalTable ==
  (pc = "done" /\ register = "ordinal" /\ is_integer(num) /\ ~num.neg
   /\ below_limit(num) /\ ~is_zero(num))
  => LET c == to_cardinal(lang, num, TRUE).str
         ws == split_whitespace(c)
         last == ws[Len(ws)]
     IN  \A k \in 1..12 :
           last = cardinal_of(lang, FALSE, k).str
           => /\ result.kind = "ok"
              /\ result.str = SubSeq(c, 1, Len(c) - Len(last))
                              \o reserved_ordinals(lang)[k]

\* the ordinal of 1 was spelled with the default suffix
C10_Witness ==
  /\ pc = "done" /\ register = "ordinal" /\ lang = "nl" /\ num = from(1)
  /\ result.str = <<"é","é","n","d","e">>

\* the last whitespace-delimited word of s
last_word(s) == split_whitespace(s)[Len(split_whitespace(s))]

\* w is the cardinal of one of 1..12
is_reserved(l, w) == \E k \in 1..12 : w = cardinal_of(l, FALSE, k).str

\* n mod 100 of the magnitude with the digits ip
low_two(ip) == value(SubSeq(ip, 1, IF Len(ip) < 2 THEN Len(ip) ELSE 2))

\* C11: in both locales, for every non-negative integer n with n mod 100 in
\* 20..99 (the cardinal ends in a tens word) the ordinal is the cardinal
\* with "ste" appended; for every other final word that is not one of the
\* words of 1..12 it is the cardinal with "de" appended.
C11_OrdinalSuffix ==
  (pc = "done" /\ register = "ordinal" /\ is_integer(num) /\ ~num.neg
   /\ below_limit(num))
  => LET c == to_cardinal(lang, num, TRUE).str
     IN  /\ result.kind = "ok"
         /\ (low_two(num.ip) \in 20..99 => result.str = c \o <<"s","t","e">>)
         /\ (low_two(num.ip) \notin 20..99 /\ ~is_reserved(lang, last_word(c))
             => result.str = c \o <<"d","e">>)

\* the same, but for the Frisian eighties, whose tens word is spelled
\* "tachtig" and takes "de"
C11_OrdinalSuffixButFrisianEighties ==
  (pc = "done" /\ register = "ordinal" /\ is_integer(num) /\ ~num.neg
   /\ below_limit(num))
  => LET c == to_cardinal(lang, num, TRUE).str
         tens == low_two(num.ip) \in 20..99
         eighties == lang = "fy" /\ low_two(num.ip) \in 80..89
     IN  /\ result.kind = "ok"
         /\ (tens /\ ~eighties => result.str = c \o <<"s","t","e">>)
         /\ (eighties => result.str = c \o <<"d","e">>)
         /\ (~tens /\ ~is_reserved(lang, last_word(c))
             => result.str = c \o <<"d","e">>)

\* the examples: 21 and 73 in both locales
C11_Examples ==
  (pc = "done" /\ register = "ordinal")
  => /\ (num = from(21) /\ lang = "nl" => result.str = <<"é","é","n","e","n","t","w","i","n","t","i","g","s","t","e">>)
     /\ (num = from(21) /\ lang = "fy" => result.str = <<"i","e","n","e","n","t","w","e","i","n","t","i","c","h","s","t","e">>)
     /\ (num = from(73) /\ lang = "nl" => result.str = <<"d","r","i","e","ë","n","z","e","v","e","n","t","i","g","s","t","e">>)
     /\ (num = from(73) /\ lang = "fy" => result.str = <<"t","r","i","j","e","ë","n","s","a","n","t","i","c","h","s","t","e">>)

\* the Frisian ordinal of 80 was spelled with "de"
C11_Witness ==
  /\ pc = "done" /\ register = "ordinal" /\ lang = "fy" /\ num = from(80)
  /\ result.str = <<"t","a","c","h","t","i","g","d","e">>

\* the failures the ordinal registers may answer a number with
ordinal_failures(n) ==
  IF is_inf(n) THEN {"InfiniteOrdinal"}
  ELSE (IF is_negative(n) THEN {"NegativeOrdinal"} ELSE {})
       \cup (IF ~is_zero(frac(n)) THEN {"FloatingOrdinal"} ELSE {})

\* C12: the ordinal and the abbreviated ordinal of an invalid number are a
\* typed failure and no string: InfiniteOrdinal for both infinities,
\* NegativeOrdinal for a negative number, FloatingOrdinal for a number with
\* a nonzero fractional part (one of the two for a negative number with a
\* fractional part).
C12_OrdinalFailures ==
  (pc = "done" /\ register \in {"ordinal", "ordinal_num"}
     /\ ordinal_failures(num) # {})
  => /\ result.kind = "err"
     /\ result.str = << >>
     /\ result.err \in ordinal_failures(num)

\* the abbreviated ordinal of 12.5 has been asked for and refused
C12_Witness ==
  /\ pc = "done" /\ register = "ordinal_num" /\ result.kind = "err"
  /\ result.err = "FloatingOrdinal"
  /\ ~num.neg /\ num.ip = << 2, 1 >> /\ num.fp = << 5 >>

\* C13: the year of a number with a nonzero fractional part is the failure
\* FloatingYear, the year of either infinity is the failure InfiniteYear,
\* and no text comes with the failure.
C13_YearFailures ==
  (pc = "done" /\ register = "year")
  => /\ is_inf(num) => result = Err("InfiniteYear")
     /\ (~is_inf(num) /\ ~is_zero(frac(num))) => result = Err("FloatingYear")

\* the year of -4000.05 has been asked for and refused
C13_Witness ==
  /\ pc = "done" /\ register = "year" /\ result = Err("FloatingYear")
  /\ num.neg /\ num.ip = << 0, 0, 0, 4 >> /\ num.fp = << 0, 5 >>

\* C14: the cardinal of +infinity is the infinity word and the cardinal of
\* -infinity the negative-infinity literal of the locale; the currency
\* amount of +infinity is the infinity word, one space and the name of the
\* major unit, and that of -infinity is the same after "minus ".
C14_Infinity ==
  (pc = "done" /\ is_inf(num))
  => /\ (register = "cardinal" /\ ~num.neg)
          => (result.kind = "ok"
              /\ result.str = (IF lang = "nl" THEN <<"o","n","e","i","n","d","i","g">> ELSE <<"û","n","e","i","n","i","c","h">>))
     /\ (register = "cardinal" /\ num.neg)
          => (result.kind = "ok"
              /\ result.str = (IF lang = "nl" THEN <<"n","e","g","a","t","i","e","f"," ","o","n","e","i","n","d","i","g">>
                               ELSE <<"n","e","g","a","t","y","f"," ","û","n","e","i","n","i","c","h">>))
     /\ (register = "currency" /\ ~num.neg)
          => (result.kind = "ok"
              /\ result.str = (IF lang = "nl" THEN <<"o","n","e","i","n","d","i","g">> ELSE <<"û","n","e","i","n","i","c","h">>)
                                \o <<" ">> \o currencies)
     /\ (register = "currency" /\ num.neg)
          => (result.kind = "ok"
              /\ result.str = <<"m","i","n","u","s"," ">>
                                \o (IF lang = "nl" THEN <<"o","n","e","i","n","d","i","g">> ELSE <<"û","n","e","i","n","i","c","h">>)
                                \o <<" ">> \o currencies)

\* the Frisian cardinal of -infinity has been produced
C14_Witness ==
  /\ pc = "done" /\ register = "cardinal" /\ lang = "fy"
  /\ is_inf(num) /\ num.neg
  /\ result.str = <<"n","e","g","a","t","y","f"," ","û","n","e","i","n","i","c","h">>

\* C15: for every integer n with 0 <= n < 10^66, in both locales, the
\* abbreviated ordinal of n succeeds and is the decimal digits of n
\* followed by "e".
C15_OrdinalNum ==
  (pc = "done" /\ register = "ordinal_num"
     /\ is_integer(num) /\ ~num.neg /\ below_limit(num))
  => /\ result.kind = "ok"
     /\ result.str = decimal(num.ip) \o <<"e">>

\* the same for the integers up to u128::MAX, the range in which the
\* conversion to a native integer succeeds
C15_OrdinalNumWithinU128 ==
  (pc = "done" /\ register = "ordinal_num"
     /\ is_integer(num) /\ ~num.neg /\ fits(num.ip, U128_MAX))
  => /\ result.kind = "ok"
     /\ result.str = decimal(num.ip) \o <<"e">>

\* above u128::MAX and below 10^66 the conversion aborts
C15_OrdinalNumAbortsAboveU128 ==
  (pc = "done" /\ register = "ordinal_num"
     /\ is_integer(num) /\ ~num.neg /\ ~fits(num.ip, U128_MAX))
  => result = Panic

\* the abbreviated ordinal of u128::MAX + 1 has been asked for
C15_Witness ==
  /\ pc = "done" /\ register = "ordinal_num" /\ ~num.neg /\ is_integer(num)
  /\ reverse(num.ip) = << 3,4,0,2,8,2,3,6,6,9,2,0,9,3,8,4,6,3,4,
                          6,3,3,7,4,6,0,7,4,3,1,7,6,8,2,1,1,4,5,6 >>
  /\ result = Panic

\* the answer C16 expects for an integer whose century part is >= 100
long_year(l, b) ==
  IF below_limit(b)
  THEN Ok(int_to_cardinal(l, BigFloat(FALSE, b.ip, << >>)).str
          \o (IF b.neg THEN bc_suffix(l) ELSE << >>), "year_cardinal")
  ELSE Err("CannotConvert")

\* C16: the year of every finite integer n is a string or a typed failure,
\* never an abort; when |n| div 100 >= 100 it is the cardinal of |n|,
\* followed by the BC suffix when n is negative, or the failure
\* CannotConvert when |n| >= 10^66.
C16_YearTotal ==
  (pc = "done" /\ register = "year" /\ is_integer(num))
  => /\ result.kind \in {"ok", "err"}
     /\ Len(num.ip) >= 5 => result = long_year(lang, num)

\* the same for the integers whose century part fits a signed 64-bit
\* integer
C16_YearTotalWithinI64 ==
  (pc = "done" /\ register = "year" /\ is_integer(num)
     /\ fits(SubSeq(num.ip, 3, Len(num.ip)), I64_MAX))
  => /\ result.kind \in {"ok", "err"}
     /\ Len(num.ip) >= 5 => result = long_year(lang, num)

\* beyond it the conversion aborts
C16_YearAbortsBeyondI64 ==
  (pc = "done" /\ register = "year" /\ is_integer(num)
     /\ ~fits(SubSeq(num.ip, 3, Len(num.ip)), I64_MAX))
  => result = Panic

\* the year -922337203685477580800, whose century part is i64::MAX + 1,
\* was asked for and the conversion aborted
C16_Witness ==
  /\ pc = "done" /\ register = "year" /\ is_integer(num) /\ num.neg
  /\ num.ip = reverse(<< 9,2,2,3,3,7,2,0,3,6,8,5,4,7,7,5,8,0,8,0,0 >>)
  /\ result = Panic

RECURSIVE digits_of_groups(_)
\* the decimal digits (least significant first) of sum element[i] * 1000^i
digits_of_groups(t) ==
  IF t = << >> THEN << >> ELSE group3(t[1]) \o digits_of_groups(Tail(t))

\* C17: for a non-negative integer n, split_thousands(n) is the sequence of
\* base-1000 digits of n, least significant first: every element is in
\* 0..999, the elements weighted by the powers of 1000 add up to n, the
\* sequence is empty iff n = 0, its last element is nonzero, and it has as
\* many elements (one per iteration) as n has groups of three digits.
C17_SplitThousands ==
  (pc = "done" /\ ~is_inf(num))
  => LET n == BigFloat(FALSE, num.ip, << >>)
         t == split_thousands(n)
     IN  /\ \A k \in 1..Len(t) : t[k] \in 0..999
         /\ strip_high(digits_of_groups(t)) = n.ip
         /\ (t = << >>) <=> is_zero(n)
         /\ t # << >> => t[Len(t)] # 0
         /\ Len(t) = (Len(n.ip) + 2) \div 3

\* the cardinal of 100102 has been produced, from the groups 102 and 100
C17_Witness ==
  /\ pc = "done" /\ register = "cardinal"
  /\ num = BigFloat(FALSE, << 2, 0, 1, 0, 0, 1 >>, << >>)
  /\ result.kind = "ok"
  /\ split_thousands(num) = << 102, 100 >>

\* the tens/units word of the ones group t[1]
ones_word(l, t) == tens_units_word(l, (t[1] \div 10) % 10, t[1] % 10)

\* the scale word of the lowest nonzero group above the ones
lowest_scale(l, t) ==
  MEGAS(l)[(CHOOSE k \in 2..Len(t) :
              t[k] # 0 /\ \A j \in 2..(k - 1) : t[j] = 0) - 1]

\* how a cardinal whose ones group has tens or units ends: the token before
\* the tens/units word, the conjunction if there is one, and that word
cardinal_tail(l, t, conj) ==
  IF t[1] \div 100 > 0
  THEN hundred(l) \o (IF conj THEN <<"e","n">> ELSE << >>) \o ones_word(l, t)
  ELSE IF Len(t) > 1 THEN lowest_scale(l, t) \o space \o ones_word(l, t)
  ELSE ones_word(l, t)

\* the cardinal has the conjunction exactly when conj, and ends accordingly
conjunction_iff(l, t, s, conj) ==
  /\ occurs(s, hundred(l) \o <<"e","n">>) <=> conj
  /\ t[1] % 100 # 0 => ends_with(s, cardinal_tail(l, t, conj))

\* C18: in the cardinal of an integer the conjunction stands before the
\* tens/units word of the ones group exactly when (a) the tens or the units
\* of the ones group are nonzero, (b) a nonzero group above the ones was
\* emitted and (c) the token before it is not a scale word, that is, the
\* ones group has hundreds; 100102 and 101102 both have it.
C18_Conjunction ==
  (pc = "done" /\ register = "cardinal" /\ is_integer(num)
     /\ ~is_zero(num) /\ below_limit(num))
  => LET t == split_thousands(BigFloat(FALSE, num.ip, << >>))
     IN  /\ result.kind = "ok"
         /\ conjunction_iff(lang, t, result.str,
              t[1] % 100 # 0 /\ Len(t) > 1 /\ t[1] \div 100 > 0)

\* what holds instead: for (b), a group above the ones must have nonzero
\* tens or units
C18_ConjunctionAfterTensOrUnitsAbove ==
  (pc = "done" /\ register = "cardinal" /\ is_integer(num)
     /\ ~is_zero(num) /\ below_limit(num))
  => LET t == split_thousands(BigFloat(FALSE, num.ip, << >>))
     IN  /\ result.kind = "ok"
         /\ conjunction_iff(lang, t, result.str,
              /\ t[1] % 100 # 0 /\ t[1] \div 100 > 0
              /\ \E k \in 2..Len(t) : t[k] % 100 # 0)

\* the two examples as the code answers them
C18_Examples ==
  (pc = "done" /\ register = "cardinal" /\ lang = "nl" /\ ~num.neg
     /\ is_integer(num))
  => /\ num.ip = << 2, 0, 1, 1, 0, 1 >>
          => result.str = <<"h","o","n","d","e","r","d","é","é","n","d","u","i","z","e","n","d"," ","h","o","n","d","e","r","d","e","n","t","w","e","e">>
     /\ num.ip = << 2, 0, 1, 0, 0, 1 >>
          => result.str = <<"h","o","n","d","e","r","d","d","u","i","z","e","n","d"," ","h","o","n","d","e","r","d","t","w","e","e">>

\* the cardinal of 100102 has been produced, without the conjunction
C18_Witness ==
  /\ pc = "done" /\ register = "cardinal" /\ lang = "nl" /\ ~num.neg
  /\ is_integer(num) /\ num.ip = << 2, 0, 1, 0, 0, 1 >>
  /\ result.str = <<"h","o","n","d","e","r","d","d","u","i","z","e","n","d"," ","h","o","n","d","e","r","d","t","w","e","e">>

\* the words C19 gives the triplet g, written one after the other
triplet_string(l, g) ==
  LET h == g \div 100
      t == (g \div 10) % 10
      u == g % 10
      unit == UNITS(l)[u]
  IN  (IF h > 1 THEN UNITS(l)[h] ELSE << >>)
      \o (IF h > 0 THEN hundred(l) ELSE << >>)
      \o (IF t = 0 /\ u = 0 THEN << >>
          ELSE IF t = 0 THEN unit
          ELSE IF t = 1 THEN TEENS(l)[u + 1]
          ELSE IF u = 0 THEN TENS(l)[t]
          ELSE unit \o (IF unit[Len(unit)] = "e" THEN <<"ë","n">> ELSE <<"e","n">>)
                    \o TENS(l)[t])

\* C19: the words of a triplet g in 1..999 are the unit word of its
\* hundreds digit h when h > 1, the hundred word when h > 0, and then
\* nothing (t = u = 0), the unit word (t = 0), the teen word (t = 1), the
\* tens word (t >= 2, u = 0) or unit word + conjunction + tens word, the
\* conjunction being "ën" iff the unit word ends in e; a triplet of 0 has
\* no words.  Taken on the cardinal of g, of g * 1000 and of g * 1000^i.
C19_TripletWords ==
  (pc = "done" /\ register = "cardinal" /\ is_integer(num) /\ ~num.neg
     /\ ~is_zero(num) /\ below_limit(num))
  => LET g == split_thousands(num)
         i == Len(g) - 1
     IN  /\ i = 0 => result.str = triplet_string(lang, g[1])
         /\ (i = 1 /\ g[1] = 0)
              => result.str = triplet_string(lang, g[2]) \o thousand(lang)
         /\ (i >= 2 /\ \A k \in 1..i : g[k] = 0)
              => result.str = triplet_string(lang, g[i + 1]) \o space
                                \o MEGAS(lang)[i]

\* the cardinal of 973 has been produced: a unit word for the hundreds, the
\* hundred word and a fused token with "ën"
C19_Witness ==
  /\ pc = "done" /\ register = "cardinal" /\ lang = "nl"
  /\ num = from(973)
  /\ result.str = <<"n","e","g","e","n","h","o","n","d","e","r","d","d","r","i","e","ë","n","z","e","v","e","n","t","i","g">>

\* where the word w starts in the string s
positions(s, w) ==
  { k \in 1..(Len(s) - Len(w) + 1) : SubSeq(s, k, k + Len(w) - 1) = w }

\* the scale word of group index i stands in s as C20 says: once iff the
\* group t[i + 1] is nonzero; glued to the word before it (the thousand
\* word) or after exactly one space (the others); at the end of s iff all
\* lower groups are zero, and otherwise before exactly one space
scale_word_placed(l, t, s, i) ==
  LET w == MEGAS(l)[i]
      P == positions(s, w)
  IN  /\ Cardinality(P) = (IF i + 1 <= Len(t) /\ t[i + 1] # 0 THEN 1 ELSE 0)
      /\ \A k \in P :
           /\ IF i = 1 THEN k > 1 /\ s[k - 1] # " "
              ELSE k > 2 /\ s[k - 1] = " " /\ s[k - 2] # " "
           /\ IF \A j \in 1..i : t[j] = 0
              THEN k + Len(w) - 1 = Len(s)
              ELSE /\ k + Len(w) + 1 <= Len(s)
                   /\ s[k + Len(w)] = " "
                   /\ s[k + Len(w) + 1] # " "

\* C20: in a successful cardinal of an integer, the scale word MEGAS[i - 1]
\* stands exactly once for each nonzero group of index i >= 1 and not at
\* all for a zero group; the thousand word is glued to the word before it,
\* every other scale word comes after exactly one space, and every scale
\* word is followed by exactly one space unless it ends the text.  So
\* 1000 is "één" + the thousand word and 1000^k, 2 <= k <= 21, is "één",
\* a space and the k-th scale word.
C20_ScaleWords ==
  (pc = "done" /\ register = "cardinal" /\ is_integer(num)
     /\ ~is_zero(num) /\ result.kind = "ok")
  => LET t == split_thousands(BigFloat(FALSE, num.ip, << >>))
         k == Len(t) - 1
     IN  /\ \A i \in 1..Len(MEGAS(lang)) :
              scale_word_placed(lang, t, result.str, i)
         /\ (~num.neg /\ k >= 1 /\ t[k + 1] = 1 /\ \A j \in 1..k : t[j] = 0)
              => result.str = (IF lang = "nl" THEN <<"é","é","n">> ELSE <<"i","e","n">>)
                              \o (IF k = 1 THEN << >> ELSE <<" ">>)
                              \o MEGAS(lang)[k]

\* the cardinal of 1000^21 has been produced
C20_Witness ==
  /\ pc = "done" /\ register = "cardinal" /\ lang = "nl"
  /\ num = BigFloat(FALSE, zeros(63) \o << 1 >>, << >>)
  /\ result.str = <<"é","é","n"," ","d","e","c","i","l","j","a","r","d">>

RECURSIVE digit_words(_, _)
\* for each digit of fp in order, one space and the word of the digit
digit_words(l, fp) ==
  IF fp = << >> THEN << >>
  ELSE <<" ">> \o (IF fp[1] = 0 THEN <<"n","u","l">> ELSE UNITS(l)[fp[1]])
       \o digit_words(l, Tail(fp))

\* C21: the cardinal of a finite non-negative value with integer part m and
\* the fractional digits d1..dk, k >= 1, is the cardinal of m, one space,
\* "komma" and, for each digit in order, one space and the word of the
\* digit ("nul" for 0, else the unit word): k digit words for k digits, no
\* two spaces in a row and none at the end; 0.005 is "nul komma nul nul
\* vijf".
C21_FloatCardinal ==
  (pc = "done" /\ register = "cardinal" /\ ~is_inf(num) /\ ~num.neg
     /\ num.fp # << >>)
  => /\ result.kind = "ok"
     /\ result.str = int_to_cardinal(lang, int(num)).str \o <<" ","k","o","m","m","a">>
                       \o digit_words(lang, num.fp)
     /\ no_double(result.str, " ")
     /\ result.str[Len(result.str)] # " "
     /\ (lang = "nl" /\ num.ip = << >> /\ num.fp = << 0, 0, 5 >>)
          => result.str = <<"n","u","l"," ","k","o","m","m","a"," ","n","u","l"," ","n","u","l"," ","v","i","j","f">>

\* the Frisian cardinal of 4000.105 has been produced
C21_Witness ==
  /\ pc = "done" /\ register = "cardinal" /\ lang = "fy" /\ ~num.neg
  /\ num.ip = << 0, 0, 0, 4 >> /\ num.fp = << 1, 0, 5 >>
  /\ result.str = <<"f","j","o","u","w","e","r","t","û","z","e","n"," ","k","o","m","m","a"," ","i","e","n"," ","n","u","l"," ","f","i","i","f">>

\* C22: for every positive non-integer x, also when 0 < x < 1, the cardinal
\* of -x is "minus", one space and the cardinal of x.
C22_NegativeFloat ==
  (pc = "done" /\ register = "cardinal" /\ ~is_inf(num) /\ num.neg
     /\ num.fp # << >>)
  => /\ result.kind = "ok"
     /\ result.str = <<"m","i","n","u","s"," ">> \o to_cardinal(lang, inv_sign(num), TRUE).str

\* what holds for x > 1: the sign is there whenever the conversion returns
C22_NegativeFloatAboveOne ==
  (pc = "done" /\ register = "cardinal" /\ ~is_inf(num) /\ num.neg
     /\ num.fp # << >> /\ num.ip # << >> /\ result.kind # "panic")
  => /\ result.kind = "ok"
     /\ result.str = <<"m","i","n","u","s"," ">> \o to_cardinal(lang, inv_sign(num), TRUE).str

\* and for 0 < x < 1: the sign is lost whenever the conversion returns
C22_NegativeFloatBelowOne ==
  (pc = "done" /\ register = "cardinal" /\ ~is_inf(num) /\ num.neg
     /\ num.fp # << >> /\ num.ip = << >> /\ result.kind # "panic")
  => /\ result.kind = "ok"
     /\ result.str = to_cardinal(lang, inv_sign(num), TRUE).str

\* the cardinal of -0.5 has been produced, without the sign
C22_Witness ==
  /\ pc = "done" /\ register = "cardinal" /\ lang = "nl" /\ num.neg
  /\ num.ip = << >> /\ num.fp = << 5 >>
  /\ result.str = <<"n","u","l"," ","k","o","m","m","a"," ","v","i","j","f">>

\* C23: for every negative finite amount v, the currency phrase of v is
\* "minus " followed by the currency phrase of -v: the negative word stands
\* once, in front, also when v has cents and when its integer part is zero.
C23_NegativeCurrency ==
  (pc = "done" /\ register = "currency" /\ ~is_inf(num) /\ num.neg
     /\ below_limit(num))
  => /\ result.kind = "ok"
     /\ result.str = <<"m","i","n","u","s"," ">> \o to_currency(lang, inv_sign(num)).str

\* what holds: the claim, for the amounts that do not have both a nonzero
\* integer part and a nonzero cent count, and are not worth zero units
C23_NegativeCurrencyOnePhrase ==
  (pc = "done" /\ register = "currency" /\ ~is_inf(num) /\ num.neg
     /\ below_limit(num)
     /\ (num.ip = << >>) # is_zero(minor_of(num)))
  => /\ result.kind = "ok"
     /\ result.str = <<"m","i","n","u","s"," ">> \o to_currency(lang, inv_sign(num)).str

\* with both parts nonzero each phrase carries the negative word; worth
\* zero units the amount carries none
C23_NegativeCurrencyBothPhrases ==
  (pc = "done" /\ register = "currency" /\ ~is_inf(num) /\ num.neg
     /\ below_limit(num)
     /\ (num.ip = << >>) = is_zero(minor_of(num)))
  => /\ result.kind = "ok"
     /\ result.str =
          IF num.ip = << >> THEN <<"n","u","l"," ","d","o","l","l","a","r">>
          ELSE <<"m","i","n","u","s"," ">> \o major_phrase(lang, inv_sign(num)) \o <<" ","e","n"," ","m","i","n","u","s"," ">>
               \o minor_phrase(lang, inv_sign(num))

\* the currency phrase of -1.5 has been produced
C23_Witness ==
  /\ pc = "done" /\ register = "currency" /\ lang = "nl" /\ num.neg
  /\ num.ip = << 1 >> /\ num.fp = << 5 >>
  /\ result.str = <<"m","i","n","u","s"," ","é","é","n"," ","d","o","l","l","a","r"," ","e","n"," ","m","i","n","u","s"," ","v","i","j","f","t","i","g"," ","c","e","n","t">>

====
